---- MODULE Spec2Model ----
(***************************************************************************)
(* DistillLoss (src/util/train_module/self_distill.py): the teacher        *)
(* temperature schedule built by __init__ and the pairwise distillation    *)
(* loss computed by forward.                                               *)
(*                                                                         *)
(* Numbers.  Temperatures and softmax probabilities are exact rationals    *)
(* <<n, d>> in lowest terms with d > 0.  A tensor entry q stands for the   *)
(* real number q * ln 2, so exp of an entry is a power of two and is       *)
(* rational whenever the entry is an integer; the inputs are drawn on the  *)
(* lattice that makes every temperature-scaled logit an integer.  A log-   *)
(* probability is a rational combination of logarithms of primes, kept as  *)
(* a function from the primes with a non-zero coefficient to that          *)
(* coefficient; logarithms of distinct primes are linearly independent     *)
(* over the rationals, so equality of such functions is equality of the    *)
(* real numbers.  Floating-point rounding is not modelled.                 *)
(***************************************************************************)
EXTENDS Integers, Sequences, FiniteSets, TLC

VARIABLES self, built, frames

vars == <<self, built, frames>>

(* ------------------------------ bounds -------------------------------- *)
MaxEpochs == 3
MaxCrops == 3
MaxRows == 4
MaxCols == 2
MaxLogit == 1
LossEpochs == 2
NThreads == 2

(* --------------------------- exact rationals --------------------------- *)
Abs(x) == IF x < 0 THEN -x ELSE x

Min(x, y) == IF x < y THEN x ELSE y

RECURSIVE Gcd(_, _)
Gcd(x, y) == IF y = 0 THEN x ELSE Gcd(y, x % y)

Rat(n, d) ==
  LET s == IF d < 0 THEN -1 ELSE 1
      g == Gcd(Abs(n), Abs(d))
  IN  <<(s * n) \div g, (s * d) \div g>>

Zero == <<0, 1>>
One == <<1, 1>>
FromInt(k) == <<k, 1>>
RNeg(p) == <<-p[1], p[2]>>

(* sums over the least common denominator and products with the common     *)
(* factors cancelled first, so that intermediate values stay small         *)
RAdd(p, q) ==
  LET g == Gcd(p[2], q[2])
  IN  Rat(p[1] * (q[2] \div g) + q[1] * (p[2] \div g), (p[2] \div g) * q[2])

RSub(p, q) == RAdd(p, RNeg(q))

RMul(p, q) ==
  LET x == Rat(p[1], q[2])
      y == Rat(q[1], p[2])
  IN  <<x[1] * y[1], x[2] * y[2]>>

RDiv(p, q) == RMul(p, Rat(q[2], q[1]))
RECURSIVE Pow2(_)
Pow2(k) == IF k = 0 THEN 1 ELSE 2 * Pow2(k - 1)

(* exp of the entry q (the real q * ln 2), for an integer q *)
Exp(q) == IF q[1] >= 0 THEN <<Pow2(q[1]), 1>> ELSE <<1, Pow2(-q[1])>>

(* ------------------ rational combinations of ln(prime) ----------------- *)
(* <<<<p1, c1>>, ..., <<pk, ck>>>> with p1 < ... < pk primes and every     *)
(* coefficient ci a non-zero rational stands for c1 ln p1 + ... + ck ln pk *)
LZero == << >>

RECURSIVE LAdd(_, _)
LAdd(u, v) ==
  IF u = << >> THEN v
  ELSE IF v = << >> THEN u
  ELSE IF u[1][1] < v[1][1] THEN <<u[1]>> \o LAdd(Tail(u), v)
  ELSE IF v[1][1] < u[1][1] THEN <<v[1]>> \o LAdd(u, Tail(v))
  ELSE LET c == RAdd(u[1][2], v[1][2])
       IN  (IF c = Zero THEN << >> ELSE <<<<u[1][1], c>>>>)
             \o LAdd(Tail(u), Tail(v))

RECURSIVE LScaleFrom(_, _, _)
LScaleFrom(r, u, k) ==
  IF k > Len(u) THEN << >>
  ELSE <<<<u[k][1], RMul(r, u[k][2])>>>> \o LScaleFrom(r, u, k + 1)

LScale(r, u) == IF r = Zero THEN LZero ELSE LScaleFrom(r, u, 1)

LSub(u, v) == LAdd(u, LScale(<<-1, 1>>, v))

(* how many times p divides n *)
RECURSIVE Multiplicity(_, _)
Multiplicity(n, p) == IF n % p # 0 THEN 0 ELSE 1 + Multiplicity(n \div p, p)

(* n with every factor p removed *)
RECURSIVE Without(_, _)
Without(n, p) == IF n % p # 0 THEN n ELSE Without(n \div p, p)

(* ln n for an integer n >= 1, by trial division from p on *)
RECURSIVE Factor(_, _)
Factor(n, p) ==
  IF n = 1 THEN LZero
  ELSE IF p * p > n THEN <<<<n, One>>>>
  ELSE IF n % p = 0
       THEN <<<<p, FromInt(Multiplicity(n, p))>>>> \o Factor(Without(n, p), p + 1)
  ELSE Factor(n, p + 1)

(* ln of a positive rational *)
Ln(q) == LSub(Factor(q[1], 2), Factor(q[2], 2))

(* ------------------------------- numpy --------------------------------- *)
Ok(v) == [err |-> "", val |-> v]
Raise(e) == [err |-> e, val |-> << >>]

(* a variant: the ramp stops one step short of stop (endpoint = False) *)
LinspaceWithoutEndpoint(start, stop, num) ==
  IF num < 0 THEN Raise("ValueError")
  ELSE LET step == IF num > 0 THEN RDiv(RSub(stop, start), FromInt(num))
                   ELSE Zero
       IN  Ok([k \in 1..num |-> RAdd(RMul(FromInt(k - 1), step), start)])

(* np.linspace(start, stop, num), endpoint = True *)
Linspace(start, stop, num) ==
  IF num < 0 THEN Raise("ValueError")
  ELSE LET div == num - 1
           delta == RSub(stop, start)
           step == IF div > 0 THEN RDiv(delta, FromInt(div)) ELSE delta
           y == [k \in 1..num |-> RAdd(RMul(FromInt(k - 1), step), start)]
       IN  Ok([k \in 1..num |-> IF num > 1 /\ k = num THEN stop ELSE y[k]])

(* a variant: a negative count gives the empty array *)
OnesOrNone(count) == Ok([k \in 1..count |-> One])

(* np.ones(count) *)
Ones(count) ==
  IF count < 0 THEN Raise("ValueError") ELSE Ok([k \in 1..count |-> One])

(* array * scalar *)
Times(arr, x) == [k \in 1..Len(arr) |-> RMul(arr[k], x)]

(* arr[i] for a Python int i: negative indices count from the end *)
NumpyIndex(arr, i) ==
  LET n == Len(arr)
  IN  IF 0 <= i /\ i < n THEN Ok(arr[i + 1])
      ELSE IF -n <= i /\ i < 0 THEN Ok(arr[n + i + 1])
      ELSE Raise("IndexError")

(* ------------------------- DistillLoss.__init__ ------------------------ *)
NoInstance ==
  [status |-> "none", student_temp |-> Zero, n_crops |-> 0,
   teacher_temp_schedule |-> << >>]

Failed(e) == [NoInstance EXCEPT !.status = e]

(* a variant: the tail after the ramp repeats the warmup temperature *)
ScheduleWithWarmupTail(warmup_teacher_temp_epochs, n_epochs, warmup_teacher_temp, teacher_temp) ==
  LET ramp == Linspace(warmup_teacher_temp, teacher_temp,
                       warmup_teacher_temp_epochs)
      tail == Ones(n_epochs - warmup_teacher_temp_epochs)
  IN  IF ramp.err # "" THEN Raise(ramp.err)
      ELSE IF tail.err # "" THEN Raise(tail.err)
      ELSE Ok(ramp.val \o Times(tail.val, warmup_teacher_temp))

(* the schedule of lines 34-41; an exception of either array propagates *)
TeacherTempSchedule(warmup_teacher_temp_epochs, n_epochs, warmup_teacher_temp, teacher_temp) ==
  LET ramp == Linspace(warmup_teacher_temp, teacher_temp,
                       warmup_teacher_temp_epochs)
      tail == Ones(n_epochs - warmup_teacher_temp_epochs)
  IN  IF ramp.err # "" THEN Raise(ramp.err)
      ELSE IF tail.err # "" THEN Raise(tail.err)
      ELSE Ok(ramp.val \o Times(tail.val, teacher_temp))

DistillLossInit(args) ==
  LET sched == TeacherTempSchedule(args.warmup_teacher_temp_epochs,
                 args.n_epochs, args.warmup_teacher_temp, args.teacher_temp)
  IN  IF sched.err # "" THEN Failed(sched.err)
      ELSE [status |-> "constructed",
            student_temp |-> args.student_temp,
            n_crops |-> args.n_crops,
            teacher_temp_schedule |-> sched.val]

(* ------------------------------- torch --------------------------------- *)
(* A tensor is its rows (data) and the graph leaves that a backward pass   *)
(* from it reaches (leaves).                                               *)
Tensor(data, leaves) == [data |-> data, leaves |-> leaves]

NRows(x) == Len(x.data)
NCols(x) == Len(x.data[1])

(* tensor / scalar *)
TDiv(x, temp) ==
  Tensor([r \in 1..NRows(x) |->
            [c \in 1..NCols(x) |-> RDiv(x.data[r][c], temp)]], x.leaves)

(* tensor.chunk(chunks) along dim 0: blocks of ceil(rows / chunks) rows,   *)
(* the last one shorter, and fewer blocks than asked when rows run out     *)
Chunk(x, chunks) ==
  LET size == NRows(x)
      split_size == (size + chunks - 1) \div chunks
      num_splits == (size + split_size - 1) \div split_size
  IN  [k \in 1..num_splits |->
         Tensor(SubSeq(x.data, (k - 1) * split_size + 1,
                       Min(k * split_size, size)), x.leaves)]

RECURSIVE RSum(_, _)
RSum(row, k) == IF k = 0 THEN Zero ELSE RAdd(row[k], RSum(row, k - 1))

(* F.softmax(x, dim=-1) *)
Softmax(x) ==
  Tensor([r \in 1..NRows(x) |->
            LET e == [c \in 1..NCols(x) |-> Exp(x.data[r][c])]
                total == RSum(e, NCols(x))
            IN  [c \in 1..NCols(x) |-> RDiv(e[c], total)]], x.leaves)

(* F.log_softmax(x, dim=-1): entry * ln 2 - ln(sum of exp) *)
LogSoftmax(x) ==
  Tensor([r \in 1..NRows(x) |->
            LET e == [c \in 1..NCols(x) |-> Exp(x.data[r][c])]
                total == RSum(e, NCols(x))
            IN  [c \in 1..NCols(x) |->
                   LSub(LScale(x.data[r][c], Ln(<<2, 1>>)), Ln(total))]],
         x.leaves)

(* a variant: the result stays in the graph *)
Attached(x) == x

(* tensor.detach() *)
Detach(x) == Tensor(x.data, {})

Broadcastable(m, n) == m = n \/ m = 1 \/ n = 1

Max(x, y) == IF x < y THEN y ELSE x

RECURSIVE LSum(_, _)
LSum(row, k) == IF k = 0 THEN LZero ELSE LAdd(row[k], LSum(row, k - 1))

(* the pointwise loss of torch.kl_div: xlogy(target, target) - target * input *)
KlPointwise(target, input) ==
  LSub(LScale(target, Ln(target)), LScale(target, input))

(* F.kl_div(input, target, reduction='batchmean'): the two operands are    *)
(* broadcast against each other, the pointwise losses summed, and the sum  *)
(* divided by input.size(0)                                                *)
KlDiv(input, target) ==
  IF ~ (Broadcastable(NRows(input), NRows(target))
        /\ Broadcastable(NCols(input), NCols(target)))
  THEN Raise("RuntimeError")
  ELSE LET rows == Max(NRows(input), NRows(target))
           cols == Max(NCols(input), NCols(target))
           At(x, r, c) == x.data[IF NRows(x) = 1 THEN 1 ELSE r]
                                [IF NCols(x) = 1 THEN 1 ELSE c]
           point == [r \in 1..rows |->
                       LSum([c \in 1..cols |->
                               KlPointwise(At(target, r, c), At(input, r, c))],
                            cols)]
       IN  Ok(Tensor(LScale(<<1, NRows(input)>>, LSum(point, rows)),
                     input.leaves \cup target.leaves))

(* ------------------------- DistillLoss.forward ------------------------- *)
(* variants: no pair skipped; every pair with j <= i skipped *)
SkipNoPair(i, j) == FALSE

SkipLowerPairs(i, j) == j <= i

(* line 62: the pairs the double loop skips *)
SkipPair(i, j) == i = j

NoLoss ==
  [err |-> "", total |-> LZero, leaves |-> {}, n_terms |-> 0, terms |-> << >>]

(* lines 59-70: the double loop over range(n_crops) x range(n_crops), from *)
(* its k-th iteration (i = k div n_crops, j = k mod n_crops) on; indexing  *)
(* a tuple of blocks past its end raises IndexError                        *)
RECURSIVE PairLoop(_, _, _, _, _)
PairLoop(student_outs, teacher_outs, n_crops, k, acc) ==
  LET i == k \div n_crops
      j == k % n_crops
  IN  IF k = n_crops * n_crops THEN acc
      ELSE IF SkipPair(i, j)
      THEN PairLoop(student_outs, teacher_outs, n_crops, k + 1, acc)
      ELSE IF i >= Len(student_outs) \/ j >= Len(teacher_outs)
      THEN [acc EXCEPT !.err = "IndexError"]
      ELSE LET kl == KlDiv(LogSoftmax(student_outs[i + 1]),
                           teacher_outs[j + 1])
           IN  IF kl.err # "" THEN [acc EXCEPT !.err = kl.err]
               ELSE PairLoop(student_outs, teacher_outs, n_crops, k + 1,
                      [err |-> "",
                       total |-> LAdd(acc.total, kl.val.data),
                       leaves |-> acc.leaves \cup kl.val.leaves,
                       n_terms |-> acc.n_terms + 1,
                       terms |-> Append(acc.terms,
                                   [i |-> i, j |-> j, term |-> kl.val.data])])

NoTensor == Tensor(<< >>, {})

(* the locals of one call of forward *)
IdleFrame ==
  [pc |-> "idle", student_outputs |-> NoTensor, teacher_outputs |-> NoTensor,
   epoch |-> 0, student_outs |-> << >>, temp |-> Zero,
   teacher_outs |-> << >>, total |-> LZero, n_terms |-> 0, terms |-> << >>,
   loss |-> LZero, leaves |-> {}, error |-> ""]

Threads == 1..NThreads

Finished == {"idle", "returned", "raised"}

Init ==
  /\ self = NoInstance
  /\ built = << >>
  /\ frames = [t \in Threads |-> IdleFrame]

(* DistillLoss(...): lines 31-41 *)
Construct(CtorArgs) ==
  /\ self.status = "none"
  /\ \E args \in CtorArgs :
       /\ self' = DistillLossInit(args)
       /\ built' = args
  /\ UNCHANGED frames

(* forward, lines 52-53: the student logits are scaled and chunked *)
Chunked(call) ==
  [IdleFrame EXCEPT
     !.pc = "chunked",
     !.student_outputs = call.student_outputs,
     !.teacher_outputs = call.teacher_outputs,
     !.epoch = call.epoch,
     !.student_outs =
        Chunk(TDiv(call.student_outputs, self.student_temp), self.n_crops)]

(* a caller whose previous call (if any) is over, in one of the positions  *)
(* From, calls forward with one of Calls                                   *)
Enter(t, From, Calls) ==
  /\ self.status = "constructed"
  /\ frames[t].pc \in From
  /\ \E call \in Calls : frames' = [frames EXCEPT ![t] = Chunked(call)]
  /\ UNCHANGED <<self, built>>

(* forward, lines 55-57: the temperature of the epoch is looked up, the    *)
(* teacher logits are scaled, normalised, detached and chunked             *)
Softmaxed(f) ==
  LET temp == NumpyIndex(self.teacher_temp_schedule, f.epoch)
  IN  IF temp.err # ""
      THEN [f EXCEPT !.pc = "raised", !.error = temp.err]
      ELSE [f EXCEPT
              !.pc = "softmaxed",
              !.temp = temp.val,
              !.teacher_outs =
                 Chunk(Detach(Softmax(TDiv(f.teacher_outputs, temp.val))),
                       self.n_crops)]

(* a variant: the call takes its temperature off the front of the schedule *)
TeacherStepConsuming(t) ==
  /\ frames[t].pc = "chunked"
  /\ frames' = [frames EXCEPT ![t] = Softmaxed(frames[t])]
  /\ self' = [self EXCEPT !.teacher_temp_schedule =
                IF Len(@) = 0 THEN @ ELSE Tail(@)]
  /\ UNCHANGED built

TeacherStep(t) ==
  /\ frames[t].pc = "chunked"
  /\ frames' = [frames EXCEPT ![t] = Softmaxed(frames[t])]
  /\ UNCHANGED <<self, built>>

(* forward, lines 59-71: the pairwise terms are accumulated and their mean *)
(* is returned; with no term at all the division is 0 / 0                  *)
Returned(f) ==
  LET acc == PairLoop(f.student_outs, f.teacher_outs, self.n_crops, 0, NoLoss)
  IN  IF acc.err # ""
      THEN [f EXCEPT !.pc = "raised", !.error = acc.err]
      ELSE IF acc.n_terms = 0
      THEN [f EXCEPT !.pc = "raised", !.error = "ZeroDivisionError"]
      ELSE [f EXCEPT
              !.pc = "returned",
              !.total = acc.total,
              !.n_terms = acc.n_terms,
              !.terms = acc.terms,
              !.leaves = acc.leaves,
              !.loss = LScale(<<1, acc.n_terms>>, acc.total)]

LoopStep(t) ==
  /\ frames[t].pc = "softmaxed"
  /\ frames' = [frames EXCEPT ![t] = Returned(frames[t])]
  /\ UNCHANGED <<self, built>>

(* the whole of forward, lines 52-71, for one call *)
Forward(call) ==
  LET f == Softmaxed(Chunked(call))
  IN  IF f.pc = "raised" THEN f ELSE Returned(f)

(* ------------------------- the inputs enumerated ----------------------- *)
(* the defaults of lines 11-14 *)
DefaultCrops == 2
WarmupTeacherTemp == Rat(7, 100)
TeacherTemp == Rat(4, 100)
StudentTemp == Rat(1, 10)

Temps == {WarmupTeacherTemp, TeacherTemp}

CtorArgs(Warmups, Epochs, Crops, WarmupTemps, FinalTemps) ==
  [warmup_teacher_temp_epochs : Warmups, n_epochs : Epochs, n_crops : Crops,
   warmup_teacher_temp : WarmupTemps, teacher_temp : FinalTemps,
   student_temp : {StudentTemp}]

(* logits z * unit for an integer matrix z *)
Logits(z, unit) ==
  [r \in 1..Len(z) |-> [c \in 1..Len(z[r]) |-> RMul(FromInt(z[r][c]), unit)]]

Lcm(x, y) == (x \div Gcd(x, y)) * y

(* the least rational that is an integer multiple of each of the first k   *)
(* temperatures of the schedule: teacher logits on its lattice stay        *)
(* integers once divided by any of them                                    *)
RECURSIVE LatticeUnit(_, _)
LatticeUnit(schedule, k) ==
  IF k = 0 THEN One
  ELSE IF k = 1 THEN schedule[1]
  ELSE LET u == LatticeUnit(schedule, k - 1)
       IN  Rat(Lcm(u[1], schedule[k][1]), Gcd(u[2], schedule[k][2]))

Call(zs, zt, teacher_requires_grad, epoch) ==
  [student_outputs |->
     Tensor(Logits(zs, self.student_temp), {"student_outputs"}),
   teacher_outputs |->
     Tensor(Logits(zt, LatticeUnit(self.teacher_temp_schedule,
                                    Len(self.teacher_temp_schedule))),
            IF teacher_requires_grad THEN {"teacher_outputs"} ELSE {}),
   epoch |-> epoch]

ZeroMatrix(rows, cols) == [r \in 1..rows |-> [c \in 1..cols |-> 0]]

PatternMatrix(rows, cols) ==
  [r \in 1..rows |-> [c \in 1..cols |->
     IF c = 1 /\ r % 2 = 1 THEN MaxLogit ELSE 0]]

RowSet(cols) == {[c \in 1..cols |-> IF c = 1 THEN k ELSE 0] : k \in {0, MaxLogit}}

Matrices(rows, cols) == [1..rows -> RowSet(cols)]

NumEpochs == Len(self.teacher_temp_schedule)

(* calls with n_crops equal blocks of batch rows and equal shapes, every   *)
(* row free, at the first and the last epoch                               *)
WellShapedCalls ==
  UNION {{Call(zs, zt, TRUE, e) :
            zs \in Matrices(self.n_crops * batch, MaxCols),
            zt \in Matrices(self.n_crops * batch, MaxCols),
            e \in {0, NumEpochs - 1}} :
         batch \in 1..(MaxRows \div self.n_crops)}

(* calls of every pair of shapes *)
AnyShapeCalls ==
  {Call(PatternMatrix(rs, cs), PatternMatrix(rt, ct), g, 0) :
     rs \in 1..MaxRows, cs \in 1..MaxCols, rt \in 1..MaxRows,
     ct \in 1..MaxCols, g \in BOOLEAN}

(* calls of every epoch, in and out of range *)
AnyEpochCalls ==
  {Call(ZeroMatrix(self.n_crops, MaxCols), ZeroMatrix(self.n_crops, MaxCols),
        TRUE, e) : e \in (-(MaxEpochs + 1))..(MaxEpochs + 1)}

(* a few calls, one of them past the last epoch *)
FewCalls ==
  {Call(PatternMatrix(self.n_crops, MaxCols), zt, TRUE, e) :
     zt \in {ZeroMatrix(self.n_crops, MaxCols),
             PatternMatrix(self.n_crops, MaxCols)},
     e \in {0, NumEpochs - 1, NumEpochs}}

(* --------------------------- specifications ---------------------------- *)
(* one call; every shape and every value, the default temperatures with   *)
(* one warmup epoch                                                        *)
Next ==
  \/ Construct(CtorArgs({1}, {LossEpochs}, 2..MaxCrops, {WarmupTeacherTemp},
                        {TeacherTemp}))
  \/ Enter(1, {"idle"}, WellShapedCalls \cup AnyShapeCalls)
  \/ TeacherStep(1)
  \/ LoopStep(1)

Spec == Init /\ [][Next]_vars

(* one call; every construction and every epoch *)
NextSchedule ==
  \/ Construct(CtorArgs(0..(MaxEpochs + 1), 0..MaxEpochs, {DefaultCrops},
                        Temps, Temps))
  \/ Enter(1, {"idle"}, AnyEpochCalls)
  \/ TeacherStep(1)
  \/ LoopStep(1)

SpecSchedule == Init /\ [][NextSchedule]_vars

(* several callers of one instance, their calls interleaved and repeated *)
NextConc ==
  \/ Construct(CtorArgs(1..2, {LossEpochs}, {DefaultCrops},
                        {WarmupTeacherTemp}, {TeacherTemp}))
  \/ \E t \in Threads :
       \/ Enter(t, Finished, FewCalls)
       \/ TeacherStep(t)
       \/ LoopStep(t)

SpecConc == Init /\ [][NextConc]_vars

(* ------------------------------ properties ----------------------------- *)
Constructed == self.status = "constructed"

Over(f) == f.pc \in {"returned", "raised"}

W == built.warmup_teacher_temp_epochs
E == built.n_epochs

Schedule(e) == self.teacher_temp_schedule[e + 1]

(* the shape precondition of a call: both row counts divisible by n_crops  *)
(* and the two shapes identical                                            *)
WellShaped(f) ==
  /\ NRows(f.student_outputs) % self.n_crops = 0
  /\ NRows(f.teacher_outputs) % self.n_crops = 0
  /\ NRows(f.student_outputs) = NRows(f.teacher_outputs)
  /\ NCols(f.student_outputs) = NCols(f.teacher_outputs)

(* C1, as claimed: every call with epoch < 0 or epoch >= numEpochs fails   *)
(* with an index error and returns no loss.                                *)
C1_EpochOutsideRangeRaises ==
  \A t \in Threads :
    LET f == frames[t]
    IN  (f.pc \in {"softmaxed", "returned", "raised"}
         /\ (f.epoch < 0 \/ f.epoch >= E))
        => (f.pc = "raised" /\ f.error = "IndexError")

(* C2, as claimed: every call whose inputs violate the shape precondition  *)
(* fails and returns no loss.                                              *)
C2_IllShapedCallRaises ==
  \A t \in Threads :
    LET f == frames[t]
    IN  (Over(f) /\ ~ WellShaped(f)) => f.pc = "raised"

(* C3: a construction with warmupTeacherTempEpochs > numEpochs fails with  *)
(* an error and produces no instance, so no schedule of any length.        *)
C3_WarmupLongerThanTrainingRejected ==
  (self.status # "none" /\ W > E)
    => (self.status = "ValueError" /\ self.teacher_temp_schedule = << >>)

C3_Witness == self.status = "ValueError" /\ W > E /\ W > 0 /\ E > 0

(* C4, as claimed: for 1 <= w <= E, schedule[0] = a, schedule[w-1] = b and *)
(* schedule[e] = b for w <= e < E.                                         *)
C4_RampEndsAtTeacherTemp ==
  (Constructed /\ 1 <= W /\ W <= E)
    => /\ Schedule(0) = built.warmup_teacher_temp
       /\ Schedule(W - 1) = built.teacher_temp
       /\ \A e \in W..(E - 1) : Schedule(e) = built.teacher_temp

(* C4, amended: for 2 <= w <= E, schedule[0] = a, schedule[w-1] = b and    *)
(* schedule[e] = b for w <= e < E; for w = 1 <= E, schedule[0] = a and     *)
(* schedule[e] = b for 1 <= e < E.  The schedule has E entries.            *)
C4_RampOfTwoOrMoreEndsAtTeacherTemp ==
  (Constructed /\ 1 <= W /\ W <= E)
    => /\ Len(self.teacher_temp_schedule) = E
       /\ Schedule(0) = built.warmup_teacher_temp
       /\ W >= 2 => Schedule(W - 1) = built.teacher_temp
       /\ \A e \in W..(E - 1) : Schedule(e) = built.teacher_temp

C4_Witness ==
  /\ Constructed
  /\ W >= 2 /\ E > W
  /\ built.warmup_teacher_temp # built.teacher_temp

(* C5, as claimed: for 1 <= w <= E a call with epoch = E - 1 uses a        *)
(* teacher temperature equal to teacherTemp.                               *)
C5_LastEpochUsesTeacherTemp ==
  \A t \in Threads :
    LET f == frames[t]
    IN  (f.pc \in {"softmaxed", "returned"} /\ 1 <= W /\ W <= E
         /\ f.epoch = E - 1)
        => f.temp = built.teacher_temp

(* C5, amended: for 1 <= w <= E a call with epoch = E - 1 uses a teacher   *)
(* temperature equal to teacherTemp, also when w = E >= 2; when w = E = 1  *)
(* it uses warmupTeacherTemp, the only entry of the schedule.              *)
C5_LastEpochUsesTeacherTempUnlessSingleEntry ==
  \A t \in Threads :
    LET f == frames[t]
    IN  (Over(f) /\ 1 <= W /\ W <= E /\ f.epoch = E - 1)
        => /\ f.pc = "returned"
           /\ f.temp = IF W = 1 /\ E = 1 THEN built.warmup_teacher_temp
                       ELSE built.teacher_temp

C5_Witness ==
  \E t \in Threads :
    /\ frames[t].pc = "returned"
    /\ W = E /\ E >= 2
    /\ frames[t].epoch = E - 1
    /\ built.warmup_teacher_temp # built.teacher_temp

CropPairs == {p \in (0..(self.n_crops - 1)) \X (0..(self.n_crops - 1)) : p[1] # p[2]}

(* C6: a call with well-shaped inputs and an epoch of the schedule returns; *)
(* it accumulates one term for each ordered pair (i, j) of distinct crops  *)
(* and no other, n * (n - 1) terms in all, and returns their sum divided   *)
(* by n * (n - 1).                                                         *)
C6_OneTermPerOrderedPair ==
  \A t \in Threads :
    LET f == frames[t]
        n == self.n_crops
    IN  (Over(f) /\ WellShaped(f) /\ f.epoch \in 0..(NumEpochs - 1) /\ n >= 2)
        => /\ f.pc = "returned"
           /\ f.n_terms = n * (n - 1)
           /\ Len(f.terms) = n * (n - 1)
           /\ {<<f.terms[k].i, f.terms[k].j>> : k \in 1..Len(f.terms)} = CropPairs
           /\ Cardinality(CropPairs) = n * (n - 1)
           /\ f.total = LSum([k \in 1..Len(f.terms) |-> f.terms[k].term],
                             Len(f.terms))
           /\ f.loss = LScale(<<1, n * (n - 1)>>, f.total)

C6_Witness ==
  \E t \in Threads :
    /\ frames[t].pc = "returned"
    /\ WellShaped(frames[t])
    /\ self.n_crops = 3
    /\ frames[t].loss # LZero

(* C7: the teacher blocks are detached, the target of every pairwise term  *)
(* among them, and a backward pass from the returned loss reaches          *)
(* student_outputs and never teacher_outputs.                              *)
C7_TeacherDetached ==
  \A t \in Threads :
    LET f == frames[t]
    IN  /\ f.pc \in {"softmaxed", "returned"}
           => \A k \in 1..Len(f.teacher_outs) : f.teacher_outs[k].leaves = {}
        /\ f.pc = "returned"
           => /\ "teacher_outputs" \notin f.leaves
              /\ f.leaves = f.student_outputs.leaves

C7_Witness ==
  \E t \in Threads :
    /\ frames[t].pc = "returned"
    /\ frames[t].teacher_outputs.leaves = {"teacher_outputs"}
    /\ frames[t].leaves = {"student_outputs"}

BlockPermutations(n) ==
  {p \in [1..n -> 1..n] : \A x, y \in 1..n : p[x] = p[y] => x = y}

(* the tensor with its n row-blocks reordered: block k of the result is    *)
(* block p[k] of x                                                         *)
PermuteBlocks(x, p, n) ==
  LET batch == NRows(x) \div n
  IN  Tensor([r \in 1..NRows(x) |->
                x.data[(p[((r - 1) \div batch) + 1] - 1) * batch
                       + ((r - 1) % batch) + 1]], x.leaves)

(* C8: permuting the row-blocks of student_outputs and of teacher_outputs  *)
(* by the same permutation leaves the returned loss unchanged.             *)
C8_BlockPermutationInvariant ==
  \A t \in Threads :
    LET f == frames[t]
        n == self.n_crops
    IN  (f.pc = "returned" /\ WellShaped(f))
        => \A p \in BlockPermutations(n) :
             LET g == Forward([student_outputs |->
                                 PermuteBlocks(f.student_outputs, p, n),
                               teacher_outputs |->
                                 PermuteBlocks(f.teacher_outputs, p, n),
                               epoch |-> f.epoch])
             IN  g.pc = "returned" /\ g.loss = f.loss

(* a returned call whose blocks are not all alike on either side, with     *)
(* three crops                                                             *)
C8_Witness ==
  \E t \in Threads :
    LET f == frames[t]
    IN  /\ f.pc = "returned"
        /\ WellShaped(f)
        /\ self.n_crops = 3
        /\ f.student_outs[1] # f.student_outs[2]
        /\ f.teacher_outs[2] # f.teacher_outs[3]
        /\ f.terms[1].term # f.terms[2].term

(* the values of the instance right after construction *)
AsConstructed == DistillLossInit(built)

Outcome(f) == <<f.pc, f.error, f.loss>>

Arguments(f) == <<f.student_outputs, f.teacher_outputs, f.epoch>>

(* C9: whatever calls have run, returned or failed, student_temp, n_crops  *)
(* and the schedule are those set at construction, and two finished calls  *)
(* with the same inputs and epoch have the same outcome.                   *)
C9_ConfigurationFrozenAndDeterministic ==
  /\ self.status # "none" => self = AsConstructed
  /\ \A t, u \in Threads :
       (Over(frames[t]) /\ Over(frames[u])
        /\ Arguments(frames[t]) = Arguments(frames[u]))
       => Outcome(frames[t]) = Outcome(frames[u])

(* two callers have both returned from calls with the same arguments *)
C9_Witness ==
  \E t, u \in Threads :
    /\ t # u
    /\ frames[t].pc = "returned"
    /\ frames[u].pc = "returned"
    /\ Arguments(frames[t]) = Arguments(frames[u])
    /\ frames[t].loss # LZero

(* the cross-entropy of a teacher block against a student block, averaged  *)
(* over the rows: (1 / batch) * sum of -teacherProbs * logStudent          *)
CrossEntropy(student_block, teacher_block) ==
  LET logs == LogSoftmax(student_block)
  IN  LScale(<<1, NRows(student_block)>>,
        LSum([r \in 1..NRows(student_block) |->
                LSum([c \in 1..NCols(student_block) |->
                        LScale(RNeg(teacher_block.data[r][c]),
                               logs.data[r][c])],
                     NCols(student_block))],
             NRows(student_block)))

(* C10, as claimed: the term of every pair (i, j) is the cross-entropy of  *)
(* teacher block j against student block i, nothing subtracted.            *)
C10_TermIsCrossEntropy ==
  \A t \in Threads :
    LET f == frames[t]
    IN  (f.pc = "returned" /\ WellShaped(f))
        => \A k \in 1..Len(f.terms) :
             f.terms[k].term =
               CrossEntropy(f.student_outs[f.terms[k].i + 1],
                            f.teacher_outs[f.terms[k].j + 1])

====
